---- MODULE Spec2Model ----
(***************************************************************************)
(* Model of two tutorial pages of the repository:                          *)
(*                                                                         *)
(*   examples/05_advanced_features.py  the caching demo and the session    *)
(*       state demo (counter, history, shopping cart), as the script that  *)
(*       the framework re-executes top to bottom on every interaction;     *)
(*   examples/04_interactive_app.py    the BMI calculator.                 *)
(*                                                                         *)
(* Spec    is the 05_advanced_features page: one action per interaction    *)
(*         that starts a rerun and one action per block of the script.     *)
(* SpecBmi is the BMI calculator page: one action per rerun.               *)
(*                                                                         *)
(* Money is counted in cents (1.50 is 150).  Time is the ordinal of the    *)
(* script run: datetime.now() read in a later run is later.                *)
(***************************************************************************)
EXTENDS Integers, Sequences, FiniteSets, TLC

VARIABLES
    \* ---- 05_advanced_features.py ----
    session_state,      \* st.session_state: a function from the keys present to their values
    cache,              \* st.cache_data store of load_data_cached: n_rows -> cached frame
    loads,              \* how often each loader's body ran, and how often each load button was clicked
    selected_product,   \* value of the "Select product:" selectbox
    quantity,           \* value of the "Quantity:" number input
    sidebar_value,      \* value of the "Sidebar slider"
    clicked,            \* the button that is True in the current run ("none": no button)
    trigger,            \* what started the current run: "load", "click", "widget" or "rerun"
    pc,                 \* position of the current run in the script ("idle": run complete)
    now,                \* ordinal of the current run, read by datetime.now()
    page,               \* what the current run has rendered so far
    \* ---- 04_interactive_app.py ----
    bmi_in,             \* the BMI page's widget values
    bmi_out,            \* what the BMI page's last run computed and rendered
    bmi_session_state   \* st.session_state of the BMI page

advVars == <<session_state, cache, loads, selected_product, quantity, sidebar_value,
             clicked, trigger, pc, now, page>>
bmiVars == <<bmi_in, bmi_out, bmi_session_state>>
vars == <<advVars, bmiVars>>

----------------------------------------------------------------------------
(* Bounds *)

\* interactions (clicks and widget changes) explored in one session
MaxRuns == 4

----------------------------------------------------------------------------
(* 05_advanced_features.py: constants of the script *)

\* products = {...}, prices in cents
products ==
    [Apple |-> 150, Banana |-> 75, Orange |-> 125, Milk |-> 350, Bread |-> 200]

\* the selectbox's first option is its initial value
DefaultProduct == "Apple"

\* st.number_input("Quantity:", min_value=1, max_value=10, value=1)
MinQuantity == 1
MaxQuantity == 10
DefaultQuantity == 1

\* st.sidebar.slider("Sidebar slider", 0, 100, 50)
SliderMin == 0
SliderMax == 100
SliderDefault == 50

\* load_data_no_cache(1000), load_data_cached(1000)
NRows == 1000

\* st.session_state.history[-10:]
HistoryShown == 10

\* the values of the widgets that the model tries
ProductChoices == {"Apple", "Milk"}
QuantityChoices == {MinQuantity, MaxQuantity}
SliderChoices == {SliderDefault, SliderMax}

\* the buttons of the page; "other" stands for the buttons of tabs 3 and 5
\* (Start Animation, Show Progress, Show Spinner, Balloons, Snow, downloads)
Buttons == {"no_cache", "cached", "increment", "decrement", "reset",
            "add_to_cart", "clear_cart", "other"}

----------------------------------------------------------------------------
(* Helpers *)

\* s[-n:]
LastN(s, n) == IF Len(s) <= n THEN s ELSE SubSeq(s, Len(s) - n + 1, Len(s))

\* 'key' in st.session_state
Has(key) == key \in DOMAIN session_state

\* st.session_state.key = value
Assign(state, key, value) ==
    [k \in DOMAIN state \cup {key} |-> IF k = key THEN value ELSE state[k]]

\* the page before anything is rendered; absent elements are empty sequences
BlankPage ==
    [no_cache_frame |-> <<>>,   \* st.dataframe(df_no_cache.head())
     cached_frame   |-> <<>>,   \* st.dataframe(df_cached.head())
     count          |-> <<>>,   \* "Current Count: n"
     history_view   |-> <<>>,   \* the lines of the View History expander
     history_open   |-> FALSE,  \* is the View History expander rendered
     added          |-> <<>>,   \* "Added {quantity}x {product} to cart!"
     cart_lines     |-> <<>>,   \* "{quantity}x {product}: ${subtotal}"
     total          |-> <<>>,   \* "Total: ${total}"
     clear_button   |-> FALSE,  \* is the Clear Cart button rendered
     cart_empty     |-> FALSE]  \* "Cart is empty"

\* st.session_state.counter, .history and .cart, once they exist
counter == session_state["counter"]
history == session_state["history"]
cart == session_state["cart"]

----------------------------------------------------------------------------
(* 05_advanced_features.py: the state before the first run of the script *)

InitAdv ==
    /\ session_state = << >>
    /\ cache = << >>
    /\ loads = [no_cache_body |-> 0, cached_body |-> 0,
                no_cache_clicks |-> 0, cached_clicks |-> 0]
    /\ selected_product = DefaultProduct
    /\ quantity = DefaultQuantity
    /\ sidebar_value = SliderDefault
    /\ clicked = "none"
    /\ trigger = "load"
    /\ pc = "no_cache"
    /\ now = 0
    /\ page = BlankPage

----------------------------------------------------------------------------
(* 05_advanced_features.py: interactions; each one makes the framework run *)
(* the script again from the top                                           *)

\* the framework starts a run: the page is rebuilt from nothing
StartRun(button, why) ==
    /\ clicked' = button
    /\ trigger' = why
    /\ pc' = "no_cache"
    /\ now' = now + 1
    /\ page' = BlankPage

\* is the button on the page the user is looking at
Offered(button) ==
    IF button = "clear_cart" THEN page.clear_button ELSE TRUE

\* the user clicks a button: it is True in the run that follows, and only there
Click(button) ==
    /\ pc = "idle"
    /\ now < MaxRuns
    /\ Offered(button)
    /\ StartRun(button, "click")
    /\ loads' = [loads EXCEPT
                    !.no_cache_clicks = @ + (IF button = "no_cache" THEN 1 ELSE 0),
                    !.cached_clicks = @ + (IF button = "cached" THEN 1 ELSE 0)]
    /\ UNCHANGED bmiVars
    /\ UNCHANGED <<session_state, cache, selected_product, quantity, sidebar_value>>

\* the user picks another product in the selectbox
ChangeProduct(p) ==
    /\ pc = "idle"
    /\ now < MaxRuns
    /\ p # selected_product
    /\ selected_product' = p
    /\ StartRun("none", "widget")
    /\ UNCHANGED bmiVars
    /\ UNCHANGED <<session_state, cache, loads, quantity, sidebar_value>>

\* the user enters another quantity
ChangeQuantity(q) ==
    /\ pc = "idle"
    /\ now < MaxRuns
    /\ q # quantity
    /\ quantity' = q
    /\ StartRun("none", "widget")
    /\ UNCHANGED bmiVars
    /\ UNCHANGED <<session_state, cache, loads, selected_product, sidebar_value>>

\* the user moves the sidebar slider
MoveSlider(v) ==
    /\ pc = "idle"
    /\ now < MaxRuns
    /\ v # sidebar_value
    /\ sidebar_value' = v
    /\ StartRun("none", "widget")
    /\ UNCHANGED bmiVars
    /\ UNCHANGED <<session_state, cache, loads, selected_product, quantity>>

----------------------------------------------------------------------------
(* 05_advanced_features.py, tab 1: caching *)

\* the frame a loader's body builds: np.random.randn gives a fresh frame on
\* every execution, named here by the ordinal of the execution
FreshFrame == loads.no_cache_body + loads.cached_body + 1

\* if st.button("Load Data (No Cache)"): df_no_cache = load_data_no_cache(1000)
LoadNoCache ==
    /\ pc = "no_cache"
    /\ IF clicked = "no_cache"
       THEN /\ loads' = [loads EXCEPT !.no_cache_body = @ + 1]
            /\ page' = [page EXCEPT !.no_cache_frame = <<FreshFrame>>]
       ELSE UNCHANGED <<loads, page>>
    /\ pc' = "cached"
    /\ UNCHANGED bmiVars
    /\ UNCHANGED <<session_state, cache, selected_product, quantity, sidebar_value,
                   clicked, trigger, now>>

\* mutant of CacheHit: the cache is never consulted
CacheNeverHit(n_rows) == FALSE

\* @st.cache_data: is the call answered from the cache
CacheHit(n_rows) == n_rows \in DOMAIN cache

\* if st.button("Load Data (Cached)"): df_cached = load_data_cached(1000)
LoadCached ==
    /\ pc = "cached"
    /\ IF clicked = "cached"
       THEN IF CacheHit(NRows)
            THEN /\ page' = [page EXCEPT !.cached_frame = <<cache[NRows]>>]
                 /\ UNCHANGED <<loads, cache>>
            ELSE /\ loads' = [loads EXCEPT !.cached_body = @ + 1]
                 /\ cache' = Assign(cache, NRows, FreshFrame)
                 /\ page' = [page EXCEPT !.cached_frame = <<FreshFrame>>]
       ELSE UNCHANGED <<loads, cache, page>>
    /\ pc' = "init_counter"
    /\ UNCHANGED bmiVars
    /\ UNCHANGED <<session_state, selected_product, quantity, sidebar_value,
                   clicked, trigger, now>>

----------------------------------------------------------------------------
(* 05_advanced_features.py, tab 2: counter and history *)

\* mutant of InitCounter: the assignment without its guard
InitCounterUnguarded ==
    /\ pc = "init_counter"
    /\ session_state' = Assign(session_state, "counter", 0)
    /\ pc' = "init_history"
    /\ UNCHANGED bmiVars
    /\ UNCHANGED <<cache, loads, selected_product, quantity, sidebar_value,
                   clicked, trigger, now, page>>

\* if 'counter' not in st.session_state: st.session_state.counter = 0
InitCounter ==
    /\ pc = "init_counter"
    /\ session_state' = IF Has("counter") THEN session_state
                        ELSE Assign(session_state, "counter", 0)
    /\ pc' = "init_history"
    /\ UNCHANGED bmiVars
    /\ UNCHANGED <<cache, loads, selected_product, quantity, sidebar_value,
                   clicked, trigger, now, page>>

\* if 'history' not in st.session_state: st.session_state.history = []
InitHistory ==
    /\ pc = "init_history"
    /\ session_state' = IF Has("history") THEN session_state
                        ELSE Assign(session_state, "history", << >>)
    /\ pc' = "increment"
    /\ UNCHANGED bmiVars
    /\ UNCHANGED <<cache, loads, selected_product, quantity, sidebar_value,
                   clicked, trigger, now, page>>

\* st.session_state.counter += 1; history.append(('increment', datetime.now()))
Incremented(state) ==
    [state EXCEPT !["counter"] = @ + 1,
                  !["history"] = Append(@, <<"increment", now>>)]

\* mutant of Decremented: the counter stops at 0
DecrementedFloored(state) ==
    [state EXCEPT !["counter"] = IF @ > 0 THEN @ - 1 ELSE 0,
                  !["history"] = Append(@, <<"decrement", now>>)]

\* st.session_state.counter -= 1; history.append(('decrement', datetime.now()))
Decremented(state) ==
    [state EXCEPT !["counter"] = @ - 1,
                  !["history"] = Append(@, <<"decrement", now>>)]

\* mutant of ResetState: the counter is not set back
ResetHistoryOnly(state) == Assign(state, "history", << >>)

\* mutant of ResetState: the history is not cleared
ResetCounterOnly(state) == Assign(state, "counter", 0)

\* st.session_state.counter = 0; st.session_state.history = []
ResetState(state) ==
    Assign(Assign(state, "counter", 0), "history", << >>)

\* if st.button("Increment"): ...
IncrementButton ==
    /\ pc = "increment"
    /\ session_state' = IF clicked = "increment" THEN Incremented(session_state)
                        ELSE session_state
    /\ pc' = "decrement"
    /\ UNCHANGED bmiVars
    /\ UNCHANGED <<cache, loads, selected_product, quantity, sidebar_value,
                   clicked, trigger, now, page>>

\* if st.button("Decrement"): ...
DecrementButton ==
    /\ pc = "decrement"
    /\ session_state' = IF clicked = "decrement" THEN Decremented(session_state)
                        ELSE session_state
    /\ pc' = "reset"
    /\ UNCHANGED bmiVars
    /\ UNCHANGED <<cache, loads, selected_product, quantity, sidebar_value,
                   clicked, trigger, now, page>>

\* if st.button("Reset"): ...
ResetButton ==
    /\ pc = "reset"
    /\ session_state' = IF clicked = "reset" THEN ResetState(session_state)
                        ELSE session_state
    /\ pc' = "render_counter"
    /\ UNCHANGED bmiVars
    /\ UNCHANGED <<cache, loads, selected_product, quantity, sidebar_value,
                   clicked, trigger, now, page>>

\* st.markdown(f"### Current Count: ..."); if history: with st.expander("View History")
RenderCounter ==
    /\ pc = "render_counter"
    /\ page' = [page EXCEPT
                  !.count = <<session_state["counter"]>>,
                  !.history_open = (session_state["history"] # << >>),
                  !.history_view = LastN(session_state["history"], HistoryShown)]
    /\ pc' = "init_cart"
    /\ UNCHANGED bmiVars
    /\ UNCHANGED <<session_state, cache, loads, selected_product, quantity,
                   sidebar_value, clicked, trigger, now>>

----------------------------------------------------------------------------
(* 05_advanced_features.py, tab 2: shopping cart *)

\* mutant of InitCart: the assignment without its guard
InitCartUnguarded ==
    /\ pc = "init_cart"
    /\ session_state' = Assign(session_state, "cart", << >>)
    /\ pc' = "add_to_cart"
    /\ UNCHANGED bmiVars
    /\ UNCHANGED <<cache, loads, selected_product, quantity, sidebar_value,
                   clicked, trigger, now, page>>

\* if 'cart' not in st.session_state: st.session_state.cart = []
InitCart ==
    /\ pc = "init_cart"
    /\ session_state' = IF Has("cart") THEN session_state
                        ELSE Assign(session_state, "cart", << >>)
    /\ pc' = "add_to_cart"
    /\ UNCHANGED bmiVars
    /\ UNCHANGED <<cache, loads, selected_product, quantity, sidebar_value,
                   clicked, trigger, now, page>>

\* mutant of NewItem: the item's price is the subtotal
NewItemSubtotalPrice ==
    [product |-> selected_product, quantity |-> quantity,
     price |-> quantity * products[selected_product]]

\* {'product': selected_product, 'quantity': quantity, 'price': products[selected_product]}
NewItem == [product |-> selected_product, quantity |-> quantity,
            price |-> products[selected_product]]

\* mutant of AddedToCart: an item of the same product absorbs the new quantity
AddedToCartMerged(state) ==
    LET items == state["cart"]
        same  == {i \in 1..Len(items) : items[i].product = NewItem.product}
    IN  IF same = {} THEN [state EXCEPT !["cart"] = Append(@, NewItem)]
        ELSE LET i == CHOOSE j \in same : TRUE
             IN  [state EXCEPT !["cart"][i].quantity = @ + NewItem.quantity]

\* st.session_state.cart.append({...})
AddedToCart(state) == [state EXCEPT !["cart"] = Append(@, NewItem)]

\* subtotal = item['quantity'] * item['price']
Subtotal(item) == item.quantity * item.price

\* total = 0; for item in cart: total += subtotal
RECURSIVE CartTotal(_)
CartTotal(items) ==
    IF items = << >> THEN 0
    ELSE CartTotal(SubSeq(items, 1, Len(items) - 1)) + Subtotal(items[Len(items)])

\* st.text(f"{item['quantity']}x {item['product']}: ${subtotal:.2f}") for each item
CartLines(items) ==
    [i \in 1..Len(items) |->
        [quantity |-> items[i].quantity, product |-> items[i].product,
         subtotal |-> Subtotal(items[i])]]

\* mutant of AddToCartButton: the cart column is rendered before the handler appends
AddToCartAfterRender ==
    /\ pc = "add_to_cart"
    /\ clicked # "clear_cart"
    /\ page' = [page EXCEPT
                  !.added = IF clicked = "add_to_cart"
                            THEN <<[quantity |-> quantity, product |-> selected_product]>>
                            ELSE @,
                  !.cart_lines = CartLines(session_state["cart"]),
                  !.total = IF session_state["cart"] # << >>
                            THEN <<CartTotal(session_state["cart"])>> ELSE @,
                  !.clear_button = (session_state["cart"] # << >>),
                  !.cart_empty = (session_state["cart"] = << >>)]
    /\ session_state' = IF clicked = "add_to_cart" THEN AddedToCart(session_state)
                        ELSE session_state
    /\ pc' = "rest"
    /\ UNCHANGED bmiVars
    /\ UNCHANGED <<cache, loads, selected_product, quantity, sidebar_value,
                   clicked, trigger, now>>

\* if st.button("Add to Cart"): ...; st.success(f"Added ...")
AddToCartButton ==
    /\ pc = "add_to_cart"
    /\ IF clicked = "add_to_cart"
       THEN /\ session_state' = AddedToCart(session_state)
            /\ page' = [page EXCEPT !.added = <<[quantity |-> quantity,
                                                  product |-> selected_product]>>]
       ELSE UNCHANGED <<session_state, page>>
    /\ pc' = "render_cart"
    /\ UNCHANGED bmiVars
    /\ UNCHANGED <<cache, loads, selected_product, quantity, sidebar_value,
                   clicked, trigger, now>>

\* st.session_state.cart = []
ClearedCart(state) == Assign(state, "cart", << >>)

\* mutant of RenderCart: Clear Cart empties the cart without st.rerun()
RenderCartNoRerun ==
    /\ pc = "render_cart"
    /\ IF session_state["cart"] # << >>
       THEN /\ page' = [page EXCEPT
                          !.cart_lines = CartLines(session_state["cart"]),
                          !.total = <<CartTotal(session_state["cart"])>>,
                          !.clear_button = TRUE]
            /\ session_state' = IF clicked = "clear_cart"
                                THEN ClearedCart(session_state) ELSE session_state
       ELSE /\ page' = [page EXCEPT !.cart_empty = TRUE]
            /\ UNCHANGED session_state
    /\ pc' = "rest"
    /\ UNCHANGED bmiVars
    /\ UNCHANGED <<cache, loads, selected_product, quantity, sidebar_value,
                   clicked, trigger, now>>

\* with col2: the cart's lines, total and Clear Cart button, or "Cart is empty";
\* a clicked Clear Cart empties the cart and st.rerun() abandons this run for a new one
RenderCart ==
    /\ pc = "render_cart"
    /\ IF session_state["cart"] # << >>
       THEN IF clicked = "clear_cart"
            THEN /\ session_state' = ClearedCart(session_state)
                 /\ StartRun("none", "rerun")
            ELSE /\ page' = [page EXCEPT
                               !.cart_lines = CartLines(session_state["cart"]),
                               !.total = <<CartTotal(session_state["cart"])>>,
                               !.clear_button = TRUE]
                 /\ pc' = "rest"
                 /\ UNCHANGED <<session_state, clicked, trigger, now>>
       ELSE /\ page' = [page EXCEPT !.cart_empty = TRUE]
            /\ pc' = "rest"
            /\ UNCHANGED <<session_state, clicked, trigger, now>>
    /\ UNCHANGED bmiVars
    /\ UNCHANGED <<cache, loads, selected_product, quantity, sidebar_value>>

\* tabs 3 to 5, the sidebar and the footer: no session variable is read or written
RestOfScript ==
    /\ pc = "rest"
    /\ pc' = "idle"
    /\ UNCHANGED bmiVars
    /\ UNCHANGED <<session_state, cache, loads, selected_product, quantity,
                   sidebar_value, clicked, trigger, now, page>>

----------------------------------------------------------------------------
(* 04_interactive_app.py: numbers                                          *)
(*                                                                         *)
(* The page computes in floating point; the model computes the exact value *)
(* values: weight_kg and height_m as fractions <<n, d>> with n >= 0 and    *)
(* d > 0, the BMI as a mixed number <<q, r, d>> (q + r/d).  Weights are    *)
(* entered in steps of 0.1 and are held in tenths (70.0 kg is 700),        *)
(* heights in cm likewise (170.0 cm is 1700).                              *)

RECURSIVE GCD(_, _)
GCD(a, b) == IF b = 0 THEN a ELSE GCD(b, a % b)

\* the fraction n/d in lowest terms
Rat(n, d) == LET g == GCD(n, d) IN <<n \div g, d \div g>>

\* a * b, cancelling across before multiplying
RatMul(a, b) ==
    LET g1 == GCD(a[1], b[2])
        g2 == GCD(b[1], a[2])
    IN  Rat((a[1] \div g1) * (b[1] \div g2), (a[2] \div g2) * (b[2] \div g1))

\* a * b divided by c, as <<quotient, remainder>>, for a, b >= 0 and c > 0;
\* computed bit by bit of b so that no intermediate value exceeds 3 * c
RECURSIVE MulDiv(_, _, _)
MulDiv(a, b, c) ==
    IF b = 0 THEN <<0, 0>>
    ELSE LET half == MulDiv(a, b \div 2, c)
             rest == 2 * half[2] + (IF b % 2 = 1 THEN a % c ELSE 0)
         IN  <<2 * half[1] + (IF b % 2 = 1 THEN a \div c ELSE 0) + (rest \div c),
               rest % c>>

\* a / b for fractions a >= 0 and b > 0, as the mixed number <<q, r, d>>,
\* that is q + r/d with 0 <= r < d and r/d in lowest terms
RatDiv(a, b) ==
    LET g1 == GCD(a[1], b[1])
        g2 == GCD(b[2], a[2])
        c  == (a[2] \div g2) * (b[1] \div g1)
        qr == MulDiv(a[1] \div g1, b[2] \div g2, c)
        g  == GCD(qr[2], c)
    IN  <<qr[1], qr[2] \div g, c \div g>>

\* the mixed number x is less than the fraction n/d (d is 1 or 2 in this page)
Less(x, n, d) ==
    LET whole == d * x[1] + ((d * x[2]) \div x[3])    \* the whole part of d * x
    IN  whole < n

\* the fraction n/d is at most the mixed number x
AtLeast(x, n, d) == ~Less(x, n, d)

\* the fraction f as a mixed number
ToMixed(f) == <<f[1] \div f[2], f[1] % f[2], f[2]>>

\* (n/d) * f for a fraction f, as a mixed number
Scale(f, n, d) ==
    LET c  == f[2] * d
        qr == MulDiv(f[1], n, c)
        g  == GCD(qr[2], c)
    IN  <<qr[1], qr[2] \div g, c \div g>>

\* x < y for mixed numbers: whole parts first, then x[2]/x[3] < y[2]/y[3]
MixedLess(x, y) ==
    \/ x[1] < y[1]
    \/ x[1] = y[1] /\ MulDiv(x[2], y[3], x[3])[1] < y[2]

\* f + k for a fraction f and an integer k
RatAdd(f, k) == <<f[1] + k * f[2], f[2]>>

\* f"{x:.1f}": the mixed number x rounded to one decimal, ties to even, as a
\* number of tenths (of the inputs tried only 1 kg at 200 cm gives a BMI
\* exactly halfway between two tenths, 0.25, which floating point holds exactly)
Format1(x) ==
    LET t  == x[1] * 10 + ((10 * x[2]) \div x[3])
        r2 == (10 * x[2]) % x[3]
    IN  IF 2 * r2 > x[3] THEN t + 1
        ELSE IF 2 * r2 < x[3] THEN t
        ELSE IF t % 2 = 0 THEN t ELSE t + 1

----------------------------------------------------------------------------
(* 04_interactive_app.py: widgets *)

Metric == "Metric (kg, cm)"
Imperial == "Imperial (lbs, inches)"

\* st.sidebar.number_input("Weight (kg)", min_value=1.0, max_value=300.0, value=70.0, step=0.1)
MinWeight == 10
MaxWeight == 3000
DefaultWeight == 700

\* st.sidebar.number_input("Height (cm)", min_value=50.0, max_value=250.0, value=170.0, step=0.1)
MinHeight == 500
MaxHeight == 2500
DefaultHeight == 1700

\* st.sidebar.number_input("Weight (lbs)", min_value=1.0, max_value=700.0, value=154.0, step=0.1)
MinWeightLbs == 10
MaxWeightLbs == 7000
DefaultWeightLbs == 1540

\* st.sidebar.number_input("Height (feet)", min_value=1, max_value=8, value=5, step=1)
MinFeet == 1
MaxFeet == 8
DefaultFeet == 5

\* st.sidebar.number_input("Additional inches", min_value=0, max_value=11, value=7, step=1)
MinInches == 0
MaxInches == 11
DefaultInches == 7

\* the widget values that the model tries: the limits, the defaults, and at
\* 200 cm the weights on and next to the class boundaries 18.5, 25 and 30
\* (99.9 kg at 200 cm is a BMI of 24.975, which is shown as 25.0)
WeightChoices == {MinWeight, DefaultWeight, 739, 740, 741, 999, 1000, 1001,
                  1199, 1200, 1201, MaxWeight}
HeightChoices == {MinHeight, DefaultHeight, 2000, MaxHeight}
WeightLbsChoices == {MinWeightLbs, 1000, DefaultWeightLbs, MaxWeightLbs}
FeetChoices == {MinFeet, 4, DefaultFeet, MaxFeet}
InchesChoices == {MinInches, DefaultInches, MaxInches}

\* track_weight = st.number_input("Weight", value=weight_kg): as long as the
\* user has entered nothing, the field shows weight_kg
Untouched == 0

\* weights entered in the Add Measurement form, in tenths of a kilogram
TrackWeightChoices == {650, 800}

\* the widgets of the page as it shows them first; a widget of the unit
\* system that is not selected is not rendered and keeps no value
DefaultInputs ==
    [unit_system |-> Metric, weight |-> DefaultWeight, height |-> DefaultHeight,
     weight_lbs |-> DefaultWeightLbs, height_feet |-> DefaultFeet,
     height_inches |-> DefaultInches, track_weight |-> Untouched, save |-> FALSE]

----------------------------------------------------------------------------
(* 04_interactive_app.py: the script *)

\* mutant of weight_kg: the weight is cut to whole kilograms
weight_kg_truncated(in) ==
    IF in.unit_system = Metric
    THEN <<in.weight \div 10, 1>>
    ELSE <<ToMixed(RatMul(Rat(in.weight_lbs, 10), Rat(453592, 1000000)))[1], 1>>

\* weight_kg = weight              |  weight_kg = weight_lbs * 0.453592
weight_kg(in) ==
    IF in.unit_system = Metric
    THEN Rat(in.weight, 10)
    ELSE RatMul(Rat(in.weight_lbs, 10), Rat(453592, 1000000))

\* height_m = height / 100         |  height_m = ((height_feet * 12) + height_inches) * 0.0254
height_m(in) ==
    IF in.unit_system = Metric
    THEN RatMul(Rat(in.height, 10), <<1, 100>>)
    ELSE RatMul(<<(in.height_feet * 12) + in.height_inches, 1>>, Rat(254, 10000))

\* mutant of calculate_bmi: the height is not squared
calculate_bmi_unsquared(w, h) == RatDiv(w, h)

\* return weight_kg / (height_m ** 2)
calculate_bmi(w, h) == RatDiv(w, RatMul(h, h))

\* mutant of get_bmi_category: 18.5 itself counts as Underweight
get_bmi_category_inclusive(bmi) ==
    IF Less(bmi, 37, 2) \/ bmi = <<18, 1, 2>>
    THEN <<"Underweight", "blue", "#3498db">>
    ELSE IF AtLeast(bmi, 37, 2) /\ Less(bmi, 25, 1)
    THEN <<"Normal weight", "green", "#2ecc71">>
    ELSE IF AtLeast(bmi, 25, 1) /\ Less(bmi, 30, 1)
    THEN <<"Overweight", "yellow", "#f39c12">>
    ELSE <<"Obese", "red", "#e74c3c">>

\* the category, its emoji and its colour
get_bmi_category(bmi) ==
    IF Less(bmi, 37, 2)
    THEN <<"Underweight", "blue", "#3498db">>
    ELSE IF AtLeast(bmi, 37, 2) /\ Less(bmi, 25, 1)
    THEN <<"Normal weight", "green", "#2ecc71">>
    ELSE IF AtLeast(bmi, 25, 1) /\ Less(bmi, 30, 1)
    THEN <<"Overweight", "yellow", "#f39c12">>
    ELSE <<"Obese", "red", "#e74c3c">>

\* the dictionary inside get_recommendations
recommendations ==
    [Underweight |->
        <<"Increase caloric intake with nutrient-dense foods",
          "Focus on strength training exercises",
          "Consult with a nutritionist for a meal plan",
          "Eat more frequent, smaller meals throughout the day">>] @@
    ("Normal weight" :>
        <<"Maintain current healthy habits",
          "Continue regular physical activity",
          "Eat a balanced diet with variety",
          "Stay hydrated and get adequate sleep">>) @@
    [Overweight |->
        <<"Gradually reduce caloric intake",
          "Increase physical activity to 150+ minutes per week",
          "Focus on whole foods and reduce processed foods",
          "Consider consulting a healthcare professional">>,
     Obese |->
        <<"Consult with a healthcare professional",
          "Create a structured weight loss plan",
          "Start with low-impact exercises like walking",
          "Consider working with a registered dietitian",
          "Set realistic, achievable goals">>]

\* mutant of get_recommendations: the table is asked for "Normal", not "Normal weight"
get_recommendations_short_key(bmi, category) ==
    LET key == IF category = "Normal weight" THEN "Normal" ELSE category
    IN  IF key \in DOMAIN recommendations THEN recommendations[key] ELSE << >>

\* return recommendations.get(category, [])
get_recommendations(bmi, category) ==
    IF category \in DOMAIN recommendations THEN recommendations[category] ELSE << >>

\* mutant of x_pos: 25 itself is placed on the Normal bar
x_pos_inclusive(bmi) ==
    IF Less(bmi, 37, 2) THEN 0
    ELSE IF Less(bmi, 25, 1) \/ bmi = <<25, 0, 1>> THEN 1
    ELSE IF Less(bmi, 30, 1) THEN 2
    ELSE 3

\* if bmi < 18.5: x_pos = 0 elif bmi < 25: x_pos = 1 elif bmi < 30: x_pos = 2 else: x_pos = 3
x_pos(bmi) ==
    IF Less(bmi, 37, 2) THEN 0
    ELSE IF Less(bmi, 25, 1) THEN 1
    ELSE IF Less(bmi, 30, 1) THEN 2
    ELSE 3

\* y=[bmi if bmi < 35 else 35]
marker_y(bmi) == IF Less(bmi, 35, 1) THEN bmi ELSE <<35, 0, 1>>

\* ideal_weight_min = ideal_bmi_min * (height_m ** 2), with ideal_bmi_min = 18.5
ideal_weight_min(h) == Scale(RatMul(h, h), 37, 2)

\* ideal_weight_max = ideal_bmi_max * (height_m ** 2), with ideal_bmi_max = 25
ideal_weight_max(h) == Scale(RatMul(h, h), 25, 1)

\* the last element of the Health Metrics column: "To Reach Normal BMI" with
\* a "+" amount, with a "-" amount, or "You're in the healthy range!"
to_reach_normal(w, h) ==
    IF MixedLess(ToMixed(w), ideal_weight_min(h)) THEN "+"
    ELSE IF MixedLess(ideal_weight_max(h), ToMixed(w)) THEN "-"
    ELSE "healthy"

\* the Weight Progress Chart: np.linspace(weight_kg + 2, weight_kg, 30) plus
\* random noise, and the target line at ideal_weight_max; the chart is named
\* by the ends of the line the noise is added to
progress_chart(w, h) ==
    [first |-> RatAdd(w, 2), last |-> w, periods |-> 30, target |-> ideal_weight_max(h)]

\* one run of the script on the widget values `in`: what it computes and renders
RunBmiPage(in) ==
    LET w    == weight_kg(in)
        h    == height_m(in)
        bmi  == calculate_bmi(w, h)
        cat  == get_bmi_category(bmi)
    IN  [weight_kg |-> w,
         height_m |-> h,
         bmi |-> bmi,
         category |-> cat[1],
         emoji |-> cat[2],
         color |-> cat[3],
         bmi_text |-> Format1(bmi),                           \* "BMI: {bmi:.1f}"
         recommendations |-> get_recommendations(bmi, cat[1]), \* Action Items
         x_pos |-> x_pos(bmi),                                \* the star's bar
         marker_y |-> marker_y(bmi),                          \* the star's height
         to_reach_normal |-> to_reach_normal(w, h),           \* Health Metrics
         progress_chart |-> progress_chart(w, h),             \* Weight Progress Chart (Sample)
         saved_message |-> in.save]                           \* "Measurement saved! (Demo - not actually saved)"

\* the page after its first run
InitBmi ==
    /\ bmi_in = DefaultInputs
    /\ bmi_out = RunBmiPage(DefaultInputs)
    /\ bmi_session_state = << >>

\* the framework reruns the script on the new widget values; a button is
\* True only in the run its click starts
RerunBmi(in) ==
    /\ bmi_in' = in
    /\ bmi_out' = RunBmiPage(in)
    /\ UNCHANGED bmi_session_state
    /\ UNCHANGED advVars

\* the user picks the other unit system: its inputs appear with their defaults
SetUnitSystem(u) ==
    /\ u # bmi_in.unit_system
    /\ RerunBmi([DefaultInputs EXCEPT !.unit_system = u])

\* the Add Measurement field is declared with value=weight_kg: when weight_kg
\* changes, the framework may keep what the user entered or show the field
\* anew with the new weight_kg
TrackWeightAfterChange == {bmi_in.track_weight, Untouched}

SetWeight(w) ==
    /\ bmi_in.unit_system = Metric
    /\ w # bmi_in.weight
    /\ \E t \in TrackWeightAfterChange :
         RerunBmi([bmi_in EXCEPT !.weight = w, !.track_weight = t, !.save = FALSE])

SetHeight(h) ==
    /\ bmi_in.unit_system = Metric
    /\ h # bmi_in.height
    /\ RerunBmi([bmi_in EXCEPT !.height = h, !.save = FALSE])

SetWeightLbs(w) ==
    /\ bmi_in.unit_system = Imperial
    /\ w # bmi_in.weight_lbs
    /\ \E t \in TrackWeightAfterChange :
         RerunBmi([bmi_in EXCEPT !.weight_lbs = w, !.track_weight = t, !.save = FALSE])

SetHeightFeet(f) ==
    /\ bmi_in.unit_system = Imperial
    /\ f # bmi_in.height_feet
    /\ RerunBmi([bmi_in EXCEPT !.height_feet = f, !.save = FALSE])

SetHeightInches(i) ==
    /\ bmi_in.unit_system = Imperial
    /\ i # bmi_in.height_inches
    /\ RerunBmi([bmi_in EXCEPT !.height_inches = i, !.save = FALSE])

\* the user enters a weight in the Add Measurement form
SetTrackWeight(t) ==
    /\ t # bmi_in.track_weight
    /\ RerunBmi([bmi_in EXCEPT !.track_weight = t, !.save = FALSE])

\* the user changes age, gender, activity level, or the date or notes of the
\* Add Measurement form
SetOtherInput ==
    /\ bmi_in.unit_system \in {Metric, Imperial}
    /\ RerunBmi([bmi_in EXCEPT !.save = FALSE])

\* mutant of ClickSave: the measurement is kept in the session state
ClickSaveStoring ==
    /\ bmi_in.unit_system \in {Metric, Imperial}
    /\ bmi_in' = [bmi_in EXCEPT !.save = TRUE]
    /\ bmi_out' = RunBmiPage(bmi_in')
    /\ bmi_session_state' = Assign(bmi_session_state, "measurements",
                                   <<bmi_in.track_weight>>)
    /\ UNCHANGED advVars

\* if st.button("Save Measurement"): st.success(...)
ClickSave ==
    /\ bmi_in.unit_system \in {Metric, Imperial}
    /\ RerunBmi([bmi_in EXCEPT !.save = TRUE])

NextBmi ==
    \/ \E u \in {Metric, Imperial} : SetUnitSystem(u)
    \/ \E w \in WeightChoices : SetWeight(w)
    \/ \E h \in HeightChoices : SetHeight(h)
    \/ \E w \in WeightLbsChoices : SetWeightLbs(w)
    \/ \E f \in FeetChoices : SetHeightFeet(f)
    \/ \E i \in InchesChoices : SetHeightInches(i)
    \/ \E t \in TrackWeightChoices : SetTrackWeight(t)
    \/ SetOtherInput
    \/ ClickSave

Init == InitAdv /\ InitBmi

Next ==
    \/ \E b \in Buttons : Click(b)
    \/ \E p \in ProductChoices : ChangeProduct(p)
    \/ \E q \in QuantityChoices : ChangeQuantity(q)
    \/ \E v \in SliderChoices : MoveSlider(v)
    \/ LoadNoCache
    \/ LoadCached
    \/ InitCounter
    \/ InitHistory
    \/ IncrementButton
    \/ DecrementButton
    \/ ResetButton
    \/ RenderCounter
    \/ InitCart
    \/ AddToCartButton
    \/ RenderCart
    \/ RestOfScript

Spec == Init /\ [][Next]_vars

SpecBmi == Init /\ [][NextBmi]_vars

----------------------------------------------------------------------------
(* Properties of 05_advanced_features.py, checked under Spec *)

\* the buttons whose handlers write a session variable
MutatingButtons == {"increment", "decrement", "reset", "add_to_cart", "clear_cart"}

\* the session variables other than `key` are the same before and after the step
OthersKept(key) ==
    /\ DOMAIN session_state' = DOMAIN session_state \cup {key}
    /\ \A k \in DOMAIN session_state \ {key} : session_state'[k] = session_state[k]

\* C1: counter, history and cart are created by their initialisation guards
\* exactly when they are absent, as 0, [] and []: the first run of the script
\* ends with counter = 0, history = [] and cart = [], and in every run a guard
\* that finds its variable present leaves the whole session state as it is.
C1_CreatedOnlyIfAbsent ==
    [][ /\ (pc = "init_counter" /\ Has("counter")) => session_state' = session_state
        /\ (pc = "init_history" /\ Has("history")) => session_state' = session_state
        /\ (pc = "init_cart" /\ Has("cart")) => session_state' = session_state
        /\ (pc = "init_counter" /\ ~Has("counter"))
              => session_state'["counter"] = 0 /\ OthersKept("counter")
        /\ (pc = "init_history" /\ ~Has("history"))
              => session_state'["history"] = << >> /\ OthersKept("history")
        /\ (pc = "init_cart" /\ ~Has("cart"))
              => session_state'["cart"] = << >> /\ OthersKept("cart")
        /\ (pc = "idle" /\ now = 0)
              => /\ DOMAIN session_state = {"counter", "history", "cart"}
                 /\ counter = 0 /\ history = << >> /\ cart = << >>
      ]_vars

\* C1 witness: a later run has passed all three guards with a counter, a
\* history and a cart that earlier runs had filled
C1_Witness ==
    /\ pc = "add_to_cart"
    /\ now > 1
    /\ counter # 0
    /\ history # << >>
    /\ cart # << >>

\* C2: in a run in which Increment is clicked the handler raises counter by
\* exactly 1 and appends exactly one ('increment', timestamp) entry to history;
\* in a run in which Decrement is clicked the handler lowers counter by exactly 1,
\* also below 0, and appends exactly one ('decrement', timestamp) entry; the
\* earlier entries stay as they are, and no other step of such a run changes
\* counter or history.
C2_IncrementDecrement ==
    [][ (pc # "idle" /\ clicked \in {"increment", "decrement"}) =>
          IF pc = clicked
          THEN /\ session_state'["counter"] =
                     counter + (IF clicked = "increment" THEN 1 ELSE -1)
               /\ Len(session_state'["history"]) = Len(history) + 1
               /\ SubSeq(session_state'["history"], 1, Len(history)) = history
               /\ session_state'["history"][Len(history) + 1] = <<clicked, now>>
          ELSE /\ session_state'["counter"] = counter
               /\ session_state'["history"] = history
      ]_vars

\* C2 witness: a Decrement run has completed with the counter below 0 and its
\* entry last in a history that holds earlier entries
C2_Witness ==
    /\ pc = "idle"
    /\ clicked = "decrement"
    /\ counter < 0
    /\ Len(history) >= 2
    /\ history[Len(history)] = <<"decrement", now>>
    /\ history[1][1] = "increment"

\* C3: a run in which Reset is clicked leaves counter = 0 and history = [] from
\* its handler on, and the page it renders shows Current Count 0 and no View
\* History section.
C3_Reset ==
    (clicked = "reset" /\ pc \in {"render_counter", "init_cart", "add_to_cart",
                                  "render_cart", "rest", "idle"})
    => /\ counter = 0
       /\ history = << >>
       /\ pc # "render_counter"
            => /\ page.count = <<0>>
               /\ ~page.history_open
               /\ page.history_view = << >>

\* C3 witness: a Reset run has completed after two earlier interactions
C3_Witness ==
    /\ pc = "idle"
    /\ clicked = "reset"
    /\ now >= 3
    /\ page.count = <<0>>

\* the page shows an empty cart: the message, and no item, total or Clear Cart button
ShowsEmptyCart ==
    /\ page.cart_empty
    /\ page.cart_lines = << >>
    /\ page.total = << >>
    /\ ~page.clear_button

\* C4: the Clear Cart button is on the page only while the cart is non-empty;
\* its click empties the cart and abandons the run for a new one started by
\* st.rerun(), and the page that this new run completes shows "Cart is empty"
\* and no item, total or Clear Cart button.
C4_ClearCart ==
    /\ [](page.clear_button => (Has("cart") /\ cart # << >>))
    /\ []((pc = "idle" /\ trigger = "rerun") => (cart = << >> /\ ShowsEmptyCart))
    /\ [][ (pc = "render_cart" /\ clicked = "clear_cart")
              => /\ session_state'["cart"] = << >>
                 /\ pc' = "no_cache"
                 /\ trigger' = "rerun"
                 /\ clicked' = "none"
                 /\ page' = BlankPage
         ]_vars

\* C4 witness: the run started by st.rerun() has completed
C4_Witness ==
    /\ pc = "idle"
    /\ trigger = "rerun"
    /\ page.cart_empty

\* C5: a run after the first in which none of Increment, Decrement, Reset, Add
\* to Cart and Clear Cart is clicked changes no session variable, and neither
\* does the interaction that starts a run.
C5_SessionStatePersists ==
    [][ (pc = "idle" \/ (now > 0 /\ clicked \notin MutatingButtons))
            => session_state' = session_state
      ]_vars

\* C5 witness: a run started by a change of the product selector has completed
\* with a counter, a history and a cart that earlier runs had filled
C5_Witness ==
    /\ pc = "idle"
    /\ trigger = "widget"
    /\ selected_product # DefaultProduct
    /\ counter # 0
    /\ history # << >>
    /\ cart # << >>

\* C9: in a run in which Add to Cart is clicked the handler appends exactly one
\* item to the end of cart, holding the selected product, the entered quantity
\* and the product's price in the products table; the items already there keep
\* their values and places, and no other step of the run changes the cart.
C9_AddToCart ==
    [][ (pc # "idle" /\ clicked = "add_to_cart") =>
          IF pc = "add_to_cart"
          THEN /\ Len(session_state'["cart"]) = Len(cart) + 1
               /\ SubSeq(session_state'["cart"], 1, Len(cart)) = cart
               /\ session_state'["cart"][Len(cart) + 1] =
                      [product |-> selected_product, quantity |-> quantity,
                       price |-> products[selected_product]]
          ELSE session_state'["cart"] = cart
      ]_vars

\* C9 witness: an Add to Cart run has completed with two items of the same product
C9_Witness ==
    /\ pc = "idle"
    /\ clicked = "add_to_cart"
    /\ Len(cart) = 2
    /\ cart[1].product = cart[2].product

\* C10: every click of Load Data (No Cache) executes the loader's body once
\* more; of the clicks of Load Data (Cached) only the first executes the body,
\* every later one shows the frame the cache holds and leaves the cache as it
\* is, so the cached loader's body runs at most once.
C10_Caching ==
    /\ [](loads.cached_body <= 1)
    /\ [](pc = "idle" =>
            /\ loads.no_cache_body = loads.no_cache_clicks
            /\ loads.cached_body = (IF loads.cached_clicks > 0 THEN 1 ELSE 0))
    /\ [][ /\ (pc = "no_cache" /\ clicked = "no_cache")
                 => loads'.no_cache_body = loads.no_cache_body + 1
           /\ (pc = "cached" /\ clicked = "cached")
                 => IF loads.cached_clicks = 1
                    THEN loads'.cached_body = loads.cached_body + 1
                    ELSE /\ loads'.cached_body = loads.cached_body
                         /\ cache' = cache
                         /\ page'.cached_frame = <<cache[NRows]>>
         ]_vars

\* C10 witness: both load buttons have been clicked twice; the uncached body
\* ran twice and the cached body once
C10_Witness ==
    /\ pc = "idle"
    /\ loads.no_cache_clicks = 2
    /\ loads.cached_clicks = 2
    /\ loads.no_cache_body = 2
    /\ loads.cached_body = 1

----------------------------------------------------------------------------
(* Properties of 04_interactive_app.py, checked under SpecBmi *)

\* the BMI of the last run is below 18.5
Below18_5 == bmi_out.bmi[1] < 18 \/ (bmi_out.bmi[1] = 18 /\ 2 * bmi_out.bmi[2] < bmi_out.bmi[3])

\* C6: the category is Underweight exactly when bmi < 18.5, Normal weight
\* exactly when 18.5 <= bmi < 25, Overweight exactly when 25 <= bmi < 30 and
\* Obese exactly when bmi >= 30; the values 18.5, 25 and 30 fall in the upper class.
C6_Classification ==
    /\ bmi_out.category \in {"Underweight", "Normal weight", "Overweight", "Obese"}
    /\ bmi_out.category = "Underweight" <=> Below18_5
    /\ bmi_out.category = "Normal weight" <=> (~Below18_5 /\ bmi_out.bmi[1] < 25)
    /\ bmi_out.category = "Overweight" <=> (bmi_out.bmi[1] >= 25 /\ bmi_out.bmi[1] < 30)
    /\ bmi_out.category = "Obese" <=> bmi_out.bmi[1] >= 30
    /\ bmi_out.bmi = <<18, 1, 2>> => bmi_out.category = "Normal weight"
    /\ bmi_out.bmi = <<25, 0, 1>> => bmi_out.category = "Overweight"
    /\ bmi_out.bmi = <<30, 0, 1>> => bmi_out.category = "Obese"

\* C6 witness: 74 kg at 200 cm, a BMI of exactly 18.5, is classified Normal weight
C6_Witness ==
    /\ bmi_in.unit_system = Metric
    /\ bmi_in.weight = 740
    /\ bmi_in.height = 2000
    /\ bmi_out.bmi = <<18, 1, 2>>
    /\ bmi_out.category = "Normal weight"

\* C7: with the metric system, 70 kg and 170 cm the BMI is 70 / 1.7^2 (that is
\* 7000/289 = 24 + 64/289), shown as 24.2, and the category is Normal weight.
C7_DefaultBmi ==
    (bmi_in.unit_system = Metric /\ bmi_in.weight = 700 /\ bmi_in.height = 1700)
    => /\ bmi_out.weight_kg = <<70, 1>>
       /\ bmi_out.height_m = <<17, 10>>
       /\ bmi_out.bmi = <<24, 64, 289>>
       /\ bmi_out.bmi_text = 242
       /\ bmi_out.category = "Normal weight"

\* C7 witness: the page has run on 70 kg and 170 cm and shows 24.2
C7_Witness ==
    /\ bmi_in.unit_system = Metric
    /\ bmi_in.weight = 700
    /\ bmi_in.height = 1700
    /\ bmi_out.bmi_text = 242

\* some BMI values, one in each class and one on a class boundary
OtherBmis == {<<10, 0, 1>>, <<18, 1, 2>>, <<27, 1, 3>>, <<45, 0, 1>>}

\* C8: the recommendations shown are the fixed list of the category (4 items
\* for Underweight, Normal weight and Overweight, 5 for Obese), never the empty
\* default, and the same whatever bmi is passed with the category.
C8_Recommendations ==
    /\ bmi_out.category \in DOMAIN recommendations
    /\ bmi_out.recommendations = recommendations[bmi_out.category]
    /\ bmi_out.recommendations # << >>
    /\ Len(bmi_out.recommendations) = (IF bmi_out.category = "Obese" THEN 5 ELSE 4)
    /\ \A b \in OtherBmis :
          get_recommendations(b, bmi_out.category) = bmi_out.recommendations

\* C8 witness: the page shows the four recommendations of Normal weight
C8_Witness ==
    /\ bmi_out.category = "Normal weight"
    /\ Len(bmi_out.recommendations) = 4
    /\ bmi_out.recommendations[1] = "Maintain current healthy habits"

----------------------------------------------------------------------------
(* Further properties of 05_advanced_features.py, checked under Spec *)

\* C11: whenever they exist, counter is an integer, history is a list of
\* (action, timestamp) pairs whose action is 'increment' or 'decrement', and
\* cart is a list of items with a product of the products table, an integer
\* quantity from 1 to 10 and that product's price in the table.
C11_TypeConsistent ==
    /\ Has("counter") => counter \in Int
    /\ Has("history") =>
          \A i \in 1..Len(history) :
              /\ Len(history[i]) = 2
              /\ history[i][1] \in {"increment", "decrement"}
              /\ history[i][2] \in Nat
    /\ Has("cart") =>
          \A i \in 1..Len(cart) :
              /\ DOMAIN cart[i] = {"product", "quantity", "price"}
              /\ cart[i].product \in DOMAIN products
              /\ cart[i].quantity \in 1..10
              /\ cart[i].price = products[cart[i].product]

\* C11 witness: a run has completed with an entry in the history and an item
\* of quantity 10 in the cart
C11_Witness ==
    /\ pc = "idle"
    /\ counter # 0
    /\ Len(history) = 1
    /\ Len(cart) = 1
    /\ cart[1].quantity = 10

\* how many entries of the history have the action `action`
Entries(action) == Cardinality({i \in 1..Len(history) : history[i][1] = action})

\* C15: whenever counter and history exist, counter is the number of
\* 'increment' entries of history minus the number of 'decrement' entries.
C15_CounterMatchesHistory ==
    (Has("counter") /\ Has("history"))
    => counter = Entries("increment") - Entries("decrement")

\* C15 witness: a run has completed with one increment and two decrements in
\* the history
C15_Witness ==
    /\ pc = "idle"
    /\ Len(history) = 3
    /\ Entries("increment") = 1
    /\ counter = -1

\* quantity times price, summed over the first n items
RECURSIVE SumOfSubtotals(_, _)
SumOfSubtotals(items, n) ==
    IF n = 0 THEN 0
    ELSE SumOfSubtotals(items, n - 1) + items[n].quantity * items[n].price

\* C18: the page of a completed run shows the session state as the run leaves
\* it: Current Count is counter, View History shows the last entries of
\* history, and the cart lines and Total are those of cart (Total the sum of
\* quantity times price over all items, the one added in this run included),
\* or "Cart is empty" for an empty cart; a run in which Clear Cart is clicked
\* never completes.
C18_NoStaleRender ==
    pc = "idle" =>
        /\ clicked # "clear_cart"
        /\ page.count = <<counter>>
        /\ page.history_open = (history # << >>)
        /\ page.history_view = LastN(history, 10)
        /\ IF cart # << >>
           THEN /\ Len(page.cart_lines) = Len(cart)
                /\ \A i \in 1..Len(cart) :
                       page.cart_lines[i] =
                           [quantity |-> cart[i].quantity, product |-> cart[i].product,
                            subtotal |-> cart[i].quantity * cart[i].price]
                /\ page.total = <<SumOfSubtotals(cart, Len(cart))>>
                /\ page.clear_button
                /\ ~page.cart_empty
           ELSE ShowsEmptyCart

\* C18 witness: an Add to Cart run has completed showing two lines and their
\* total, 1 Apple at 1.50 and 10 Milk at 3.50
C18_Witness ==
    /\ pc = "idle"
    /\ clicked = "add_to_cart"
    /\ Len(page.cart_lines) = 2
    /\ page.cart_lines[2].product = "Milk"
    /\ page.total = <<3650>>

----------------------------------------------------------------------------
(* Further properties of 04_interactive_app.py, checked under SpecBmi *)

\* the widget values are within the limits of their widgets
Admissible ==
    IF bmi_in.unit_system = Metric
    THEN /\ bmi_in.weight \in MinWeight..MaxWeight
         /\ bmi_in.height \in MinHeight..MaxHeight
    ELSE /\ bmi_in.weight_lbs \in MinWeightLbs..MaxWeightLbs
         /\ bmi_in.height_feet \in MinFeet..MaxFeet
         /\ bmi_in.height_inches \in MinInches..MaxInches

\* C12: for widget values within the widgets' limits, in both unit systems,
\* weight_kg and height_m are strictly positive, so calculate_bmi divides by a
\* non-zero number and the BMI is strictly positive.
C12_PositiveInputs ==
    /\ Admissible
    /\ bmi_out.weight_kg[1] > 0 /\ bmi_out.weight_kg[2] > 0
    /\ bmi_out.height_m[1] > 0 /\ bmi_out.height_m[2] > 0
    /\ bmi_out.bmi[3] > 0
    /\ bmi_out.bmi[1] > 0 \/ bmi_out.bmi[2] > 0

\* C12 witness: the page has run on the smallest imperial weight, 1 lb, at the
\* greatest imperial height, 8 feet 11 inches
C12_Witness ==
    /\ bmi_in.unit_system = Imperial
    /\ bmi_in.weight_lbs = MinWeightLbs
    /\ bmi_in.height_feet = MaxFeet
    /\ bmi_in.height_inches = MaxInches
    /\ bmi_out.bmi[1] = 0
    /\ bmi_out.bmi[2] > 0

\* the category of the "What is BMI?" table for a BMI shown with one decimal,
\* given in tenths: < 18.5, 18.5-24.9, 25-29.9, >= 30
TableCategory(tenths) ==
    IF tenths < 185 THEN "Underweight"
    ELSE IF tenths <= 249 THEN "Normal weight"
    ELSE IF tenths <= 299 THEN "Overweight"
    ELSE "Obese"

\* C13: the category shown is the one the page's "What is BMI?" table gives
\* for the BMI value shown, the BMI rounded to one decimal.
C13_ShownCategoryMatchesTable ==
    bmi_out.category = TableCategory(bmi_out.bmi_text)

\* C14: Save Measurement writes no session variable; the page is determined by
\* the widget values alone, but for the success message, which is shown in the
\* run the click starts and not in the run after it; the click changes no
\* widget value, and the progress chart runs from weight_kg + 2 to the current
\* weight_kg.
C14_SaveSavesNothing ==
    /\ [](DOMAIN bmi_session_state = {})
    /\ [](bmi_out.saved_message = bmi_in.save)
    /\ []([bmi_out EXCEPT !.saved_message = FALSE]
            = RunBmiPage([bmi_in EXCEPT !.save = FALSE]))
    /\ [](/\ bmi_out.progress_chart.last = bmi_out.weight_kg
          /\ bmi_out.progress_chart.first[1] =
                 bmi_out.weight_kg[1] + 2 * bmi_out.weight_kg[2])
    /\ [][ /\ bmi_in'.save
                => [bmi_in' EXCEPT !.save = FALSE] = [bmi_in EXCEPT !.save = FALSE]
           /\ (bmi_in.save /\ ~bmi_in'.save)
                => /\ ~bmi_out'.saved_message
                   /\ bmi_out' = RunBmiPage(bmi_in')
         ]_vars

\* C14 witness: Save Measurement has been clicked at 100 kg with 80 kg entered
\* in the form; the message is shown and the chart ends at 100 kg
C14_Witness ==
    /\ bmi_in.save
    /\ bmi_out.saved_message
    /\ bmi_in.unit_system = Metric
    /\ bmi_in.weight = 1000
    /\ bmi_in.track_weight = 800
    /\ bmi_out.progress_chart.last = <<100, 1>>
    /\ bmi_session_state = << >>

\* C16: "You're in the healthy range!" is shown exactly for Normal weight, a
\* "+" amount exactly for Underweight and a "-" amount exactly for Overweight
\* and Obese.
C16_MetricsAgreeWithCategory ==
    /\ bmi_out.to_reach_normal = "healthy" <=> bmi_out.category = "Normal weight"
    /\ bmi_out.to_reach_normal = "+" <=> bmi_out.category = "Underweight"
    /\ bmi_out.to_reach_normal = "-" <=> bmi_out.category \in {"Overweight", "Obese"}

\* C17: the star is on bar 0 exactly for Underweight, 1 for Normal weight, 2 for
\* Overweight and 3 for Obese, at the height of the BMI, or 35 for a BMI of 35
\* or more.
C17_MarkerOnCategoryBar ==
    /\ bmi_out.x_pos \in 0..3
    /\ bmi_out.x_pos = 0 <=> bmi_out.category = "Underweight"
    /\ bmi_out.x_pos = 1 <=> bmi_out.category = "Normal weight"
    /\ bmi_out.x_pos = 2 <=> bmi_out.category = "Overweight"
    /\ bmi_out.x_pos = 3 <=> bmi_out.category = "Obese"
    /\ bmi_out.marker_y = (IF bmi_out.bmi[1] < 35 THEN bmi_out.bmi ELSE <<35, 0, 1>>)

\* C17 witness: at a BMI of exactly 25 the star is on the Overweight bar at height 25
C17_Witness ==
    /\ bmi_out.bmi = <<25, 0, 1>>
    /\ bmi_out.category = "Overweight"
    /\ bmi_out.x_pos = 2
    /\ bmi_out.marker_y = <<25, 0, 1>>

====
